---- MODULE Spec2Model ----
(***************************************************************************)
(* A model of the KILT credential verifier (src/src/credential.rs,         *)
(* src/src/utils.rs, src/src/errors.rs).                                   *)
(*                                                                         *)
(* Text is a sequence of one-character strings, bytes are sequences of     *)
(* numbers 0..255.  The helpers of utils.rs and the four checks of         *)
(* credential.rs are operators computed the way the code computes them;    *)
(* Credential::verify is a state machine with one action per check.        *)
(***************************************************************************)
EXTENDS Integers, Sequences, FiniteSets, TLC

(***************************************************************************)
(* Results: Rust's Result<T, Error>.                                       *)
(***************************************************************************)
Ok(v) == [ok |-> TRUE, val |-> v, err |-> "none"]

Err(e) == [ok |-> FALSE, val |-> <<>>, err |-> e]

(* Result<(), Error>: the unit value is the empty tuple. *)
OkUnit == Ok(<<>>)

(***************************************************************************)
(* Characters: printable ASCII, code 32 first; the grave accent (96) is    *)
(* left out, so the letters a..z sit one place early.                      *)
(***************************************************************************)
AsciiPrintable ==
    << " ", "!", "\"", "#", "$", "%", "&", "'", "(", ")", "*", "+", ",", "-", ".", "/",
       "0", "1", "2", "3", "4", "5", "6", "7", "8", "9", ":", ";", "<", "=", ">", "?",
       "@", "A", "B", "C", "D", "E", "F", "G", "H", "I", "J", "K", "L", "M", "N", "O",
       "P", "Q", "R", "S", "T", "U", "V", "W", "X", "Y", "Z", "[", "\\", "]", "^", "_",
       "a", "b", "c", "d", "e", "f", "g", "h", "i", "j", "k", "l", "m", "n", "o",
       "p", "q", "r", "s", "t", "u", "v", "w", "x", "y", "z", "{", "|", "}", "~" >>

CharSet == {AsciiPrintable[i] : i \in 1..Len(AsciiPrintable)}

CharIndex(c) == CHOOSE i \in 1..Len(AsciiPrintable) : AsciiPrintable[i] = c

OrdMap == [c \in CharSet |-> IF CharIndex(c) <= 64 THEN 31 + CharIndex(c) ELSE 32 + CharIndex(c)]

(* str::as_bytes for ASCII text *)
AsBytes(s) == [i \in 1..Len(s) |-> OrdMap[s[i]]]

(* char::is_whitespace, for the characters of the model *)
Whitespace == {" ", "\t", "\n", "\r"}

Drop(s, n) == SubSeq(s, n + 1, Len(s))

IsPrefix(p, s) == Len(p) <= Len(s) /\ SubSeq(s, 1, Len(p)) = p

RECURSIVE TrimStart(_)
TrimStart(s) ==
    IF s /= <<>> /\ s[1] \in Whitespace THEN TrimStart(Drop(s, 1)) ELSE s

RECURSIVE TrimEnd(_)
TrimEnd(s) ==
    IF s /= <<>> /\ s[Len(s)] \in Whitespace THEN TrimEnd(SubSeq(s, 1, Len(s) - 1)) ELSE s

(* str::trim *)
Trim(s) == TrimEnd(TrimStart(s))

(* str::trim_start_matches: strips the pattern as often as it leads *)
RECURSIVE TrimStartMatches(_, _)
TrimStartMatches(s, pat) ==
    IF pat /= <<>> /\ IsPrefix(pat, s) THEN TrimStartMatches(Drop(s, Len(pat)), pat) ELSE s

(***************************************************************************)
(* The hex crate: encode writes two lower-case digits per byte, decode     *)
(* refuses an odd length and any character that is no hex digit, and reads *)
(* digits of either case.                                                  *)
(***************************************************************************)
HexDigitsLower == <<"0","1","2","3","4","5","6","7","8","9","a","b","c","d","e","f">>

HexDigitsUpper == <<"0","1","2","3","4","5","6","7","8","9","A","B","C","D","E","F">>

(* a decoder that reads lower-case digits only *)
IsHexDigitLowerOnly(c) == \E i \in 1..16 : HexDigitsLower[i] = c

IsHexDigit(c) == \E i \in 1..16 : HexDigitsLower[i] = c \/ HexDigitsUpper[i] = c

HexVal(c) == (CHOOSE i \in 1..16 : HexDigitsLower[i] = c \/ HexDigitsUpper[i] = c) - 1

HexCrateEncode(data) ==
    [i \in 1..(2 * Len(data)) |->
        IF i % 2 = 1 THEN HexDigitsLower[(data[(i + 1) \div 2] \div 16) + 1]
        ELSE HexDigitsLower[(data[i \div 2] % 16) + 1]]

HexCrateDecode(s) ==
    IF Len(s) % 2 /= 0 THEN Err("InvalidHex")
    ELSE IF \E i \in 1..Len(s) : ~IsHexDigit(s[i]) THEN Err("InvalidHex")
    ELSE Ok([i \in 1..(Len(s) \div 2) |-> 16 * HexVal(s[2 * i - 1]) + HexVal(s[2 * i])])

Prefix0x == <<"0", "x">>

(* utils.rs hex_encode *)
hex_encode(data) == Prefix0x \o HexCrateEncode(data)

(* hex_decode as it would be without the trim of surrounding whitespace *)
hex_decode_untrimmed(data) == HexCrateDecode(TrimStartMatches(data, Prefix0x))

(* utils.rs hex_decode *)
hex_decode(data) == HexCrateDecode(TrimStartMatches(Trim(data), Prefix0x))

(***************************************************************************)
(* Blake2b256 (credential.rs:18) is the blake2 crate's 32-byte digest.     *)
(* The model's digest is a deterministic 32-byte function of the message:  *)
(* a polynomial of the bytes modulo a prime, written out in DigestLen       *)
(* bytes.  DigestInjective states that it is collision-free on the         *)
(* messages a specification digests.                                       *)
(***************************************************************************)
DigestLen == 32

DigestModulus == 46337

DigestBase == 257

(* DigestBase to the power n, modulo DigestModulus *)
RECURSIVE DigestPow(_)
DigestPow(n) ==
    IF n = 0 THEN 1
    ELSE IF n % 2 = 0 THEN (DigestPow(n \div 2) * DigestPow(n \div 2)) % DigestModulus
    ELSE (DigestPow(n - 1) * DigestBase) % DigestModulus

(* The polynomial of the bytes m[lo..hi] in DigestBase: the halves are     *)
(* folded separately and joined.                                           *)
RECURSIVE DigestPoly(_, _, _)
DigestPoly(m, lo, hi) ==
    IF lo > hi THEN 0
    ELSE IF lo = hi THEN m[lo] + 1
    ELSE (DigestPoly(m, lo, (lo + hi) \div 2) * DigestPow(hi - ((lo + hi) \div 2))
          + DigestPoly(m, ((lo + hi) \div 2) + 1, hi)) % DigestModulus

DigestAcc(m) == DigestPoly(m, 1, Len(m))

DigestByte(h, i) ==
    IF i % 2 = 0 THEN (h + i) % 256 ELSE ((h \div 256) + i) % 256

(* Blake2b256::new(), update(m), finalize() *)
DigestBytes(h) == [i \in 1..DigestLen |-> DigestByte(h, i - 1)]

Blake2b256(m) == DigestBytes(DigestAcc(m))

(***************************************************************************)
(* serde_json::Value, for the values the model uses: null, a string, an    *)
(* object (a map from keys to values).  to_string writes a string between  *)
(* double quotes (the model's text holds no character that needs an        *)
(* escape) and a one-entry object as {"key":value}.                        *)
(***************************************************************************)
JNull == [t |-> "null", s |-> <<>>, m |-> <<>>]

JString(str) == [t |-> "string", s |-> str, m |-> <<>>]

JObject(map) == [t |-> "object", s |-> <<>>, m |-> map]

Quoted(str) == <<"\"">> \o str \o <<"\"">>

ScalarToString(v) ==
    IF v.t = "string" THEN Quoted(v.s) ELSE <<"n", "u", "l", "l">>

(* serde_json::to_string of a map with the single entry key: value *)
SingleEntryToString(key, value) ==
    <<"{">> \o Quoted(key) \o <<":">> \o ScalarToString(value) \o <<"}">>

(* Some sequence of the elements of a finite set, each once. *)
RECURSIVE SeqOfSet(_)
SeqOfSet(S) ==
    IF S = {} THEN <<>>
    ELSE LET x == CHOOSE y \in S : TRUE IN <<x>> \o SeqOfSet(S \ {x})

Range(f) == {f[i] : i \in DOMAIN f}

(***************************************************************************)
(* Credential::check_claim_contents                                        *)
(***************************************************************************)
AtId == <<"@", "i", "d">>

KiltCtype == <<"k", "i", "l", "t", ":", "c", "t", "y", "p", "e", ":">>

(* format!("kilt:ctype:{}#{}", ctype_hash, key) *)
StatementKey(ctype_hash, key) == KiltCtype \o ctype_hash \o <<"#">> \o key

OwnerStatement(claim) == SingleEntryToString(AtId, JString(claim.owner))

ContentStatement(claim, key) ==
    SingleEntryToString(StatementKey(claim.ctype_hash, key), claim.contents.m[key])

(* normalized_parts as it would be without the owner statement *)
NormalizedPartsNoOwner(claim) ==
    [i \in 1..Cardinality(DOMAIN claim.contents.m) |->
        ContentStatement(claim, SeqOfSet(DOMAIN claim.contents.m)[i])]

(* normalized_parts: the owner first, then one statement per contents entry *)
NormalizedParts(claim) ==
    <<OwnerStatement(claim)>>
    \o [i \in 1..Cardinality(DOMAIN claim.contents.m) |->
          ContentStatement(claim, SeqOfSet(DOMAIN claim.contents.m)[i])]

StatementHash(part) == hex_encode(Blake2b256(AsBytes(part)))

(* hasher.update(nonce); hasher.update(hash) *)
SaltedHash(nonce, hash) == hex_encode(Blake2b256(AsBytes(nonce) \o AsBytes(hash)))

(* the per-hash check as it would be without the look-up in claim_hashes *)
CheckStatementHashNonceOnly(c, hash) ==
    IF hash \notin DOMAIN c.claim_nonce_map THEN Err("InvalidClaimContents") ELSE OkUnit

CheckStatementHash(c, hash) ==
    IF hash \notin DOMAIN c.claim_nonce_map THEN Err("InvalidClaimContents")
    ELSE IF SaltedHash(c.claim_nonce_map[hash], hash) \notin Range(c.claim_hashes)
         THEN Err("InvalidClaimContents")
         ELSE OkUnit

(* Iterator::try_for_each: the first error ends the walk *)
RECURSIVE TryForEachHash(_, _)
TryForEachHash(c, hashes) ==
    IF hashes = <<>> THEN OkUnit
    ELSE IF ~CheckStatementHash(c, hashes[1]).ok THEN CheckStatementHash(c, hashes[1])
    ELSE TryForEachHash(c, Drop(hashes, 1))

check_claim_contents(c) ==
    IF c.claim.contents.t /= "object" THEN Err("InvalidClaimContents")
    ELSE TryForEachHash(c, [i \in 1..Len(NormalizedParts(c.claim)) |->
                                StatementHash(NormalizedParts(c.claim)[i])])

(***************************************************************************)
(* Credential::check_root_hash                                             *)
(***************************************************************************)
(* the loop as it would be if the entries were fed in an order of their    *)
(* own (as a set) instead of the order given *)
RECURSIVE FeedClaimHashesUnordered(_, _)
FeedClaimHashesUnordered(fed, hashes) ==
    IF hashes = <<>> THEN Ok(fed)
    ELSE LET first == CHOOSE h \in Range(hashes) : TRUE
             at == CHOOSE i \in 1..Len(hashes) : hashes[i] = first
         IN IF ~hex_decode(first).ok THEN hex_decode(first)
            ELSE FeedClaimHashesUnordered(
                     fed \o hex_decode(first).val,
                     SubSeq(hashes, 1, at - 1) \o SubSeq(hashes, at + 1, Len(hashes)))

(* The loop of check_root_hash: the bytes fed to the hasher so far, or the *)
(* first decoding error. *)
RECURSIVE FeedClaimHashes(_, _)
FeedClaimHashes(fed, hashes) ==
    IF hashes = <<>> THEN Ok(fed)
    ELSE IF ~hex_decode(hashes[1]).ok THEN hex_decode(hashes[1])
    ELSE FeedClaimHashes(fed \o hex_decode(hashes[1]).val, Drop(hashes, 1))

(* check_root_hash as it would be if it compared the decoded bytes *)
check_root_hash_decoded(c) ==
    IF ~FeedClaimHashes(<<>>, c.claim_hashes).ok THEN Err("InvalidHex")
    ELSE IF hex_decode(c.root_hash) /= Ok(Blake2b256(FeedClaimHashes(<<>>, c.claim_hashes).val))
         THEN Err("InvalidRootHash")
         ELSE OkUnit

check_root_hash(c) ==
    IF ~FeedClaimHashes(<<>>, c.claim_hashes).ok THEN Err("InvalidHex")
    ELSE IF hex_encode(Blake2b256(FeedClaimHashes(<<>>, c.claim_hashes).val)) /= c.root_hash
         THEN Err("InvalidRootHash")
         ELSE OkUnit

(***************************************************************************)
(* utils.rs: the parts of an identity string.                              *)
(***************************************************************************)
SepPositions(s, sep) == {i \in 1..Len(s) : s[i] = sep}

(* The position of the k-th separator; 0 before the first, Len(s) + 1      *)
(* after the last. *)
SepAt(s, sep, k) ==
    IF k = 0 THEN 0
    ELSE IF k > Cardinality(SepPositions(s, sep)) THEN Len(s) + 1
    ELSE CHOOSE p \in SepPositions(s, sep) :
             Cardinality({q \in SepPositions(s, sep) : q < p}) = k - 1

(* str::split(sep).collect() *)
Split(s, sep) ==
    [k \in 1..(Cardinality(SepPositions(s, sep)) + 1) |->
        SubSeq(s, SepAt(s, sep, k - 1) + 1, SepAt(s, sep, k) - 1)]

get_did_parts(did) ==
    IF Len(Split(did, ":")) /= 3 THEN Err("InvalidDid") ELSE Ok(Split(did, ":"))

(***************************************************************************)
(* SS58 addresses (sp_core::crypto::Ss58Codec).  An account has one        *)
(* address per network version; from_ss58check reads an address of any     *)
(* version, to_ss58check_with_version writes the one of the version asked. *)
(* The table stands for the codec on the accounts of the model.            *)
(***************************************************************************)
KiltVersion == 38

SubstrateVersion == 42

Ss58Table ==
    { [account |-> "owner",    version |-> KiltVersion,      address |-> <<"4", "s", "i", "D">>],
      [account |-> "owner",    version |-> SubstrateVersion, address |-> <<"5", "D", "A", "A">>],
      [account |-> "attester", version |-> KiltVersion,      address |-> <<"4", "p", "n", "f">>],
      [account |-> "attester", version |-> SubstrateVersion, address |-> <<"5", "G", "r", "w">>],
      [account |-> "stranger", version |-> KiltVersion,      address |-> <<"4", "p", "v", "W">>] }

from_ss58check(s) ==
    IF \E e \in Ss58Table : e.address = s
    THEN Ok((CHOOSE e \in Ss58Table : e.address = s).account)
    ELSE Err("PublicError")

to_ss58check_with_version(account, version) ==
    (CHOOSE e \in Ss58Table : e.account = account /\ e.version = version).address

get_did_account_id(did) ==
    IF ~get_did_parts(did).ok THEN Err("InvalidDid")
    ELSE IF ~from_ss58check(Split(get_did_parts(did).val[3], "#")[1]).ok THEN Err("InvalidDid")
    ELSE from_ss58check(Split(get_did_parts(did).val[3], "#")[1])

(* A panic: the call does not return. *)
Panic == Err("panic")

H256Len == 32

get_did_key_id(did) ==
    IF ~get_did_parts(did).ok THEN Err("InvalidDid")
    ELSE IF Len(Split(get_did_parts(did).val[3], "#")) /= 2 THEN Err("InvalidDid")
    ELSE IF Len(Split(get_did_parts(did).val[3], "#")[2]) < 2 THEN Panic
    ELSE IF ~HexCrateDecode(Drop(Split(get_did_parts(did).val[3], "#")[2], 2)).ok
         THEN Err("InvalidHex")
    ELSE IF Len(HexCrateDecode(Drop(Split(get_did_parts(did).val[3], "#")[2], 2)).val) /= H256Len
         THEN Err("InvalidDid")
    ELSE HexCrateDecode(Drop(Split(get_did_parts(did).val[3], "#")[2], 2))

(***************************************************************************)
(* errors.rs: From<subxt::BasicError> for Error, applied by the ? after    *)
(* each resolver call.                                                     *)
(***************************************************************************)
(* the conversion as it would be if a resolver error were taken for an     *)
(* empty answer *)
FromBasicErrorAsNotFound == Err("DidNotFound")

FromBasicError == Err("ConnectionError")

(* Option<T>: None is the empty tuple, Some(x) the tuple of x. *)
None == <<>>

Some(x) == <<x>>

(***************************************************************************)
(* sr25519 (sp_core): the model's signature of a message under a key is    *)
(* one 64-byte string computed from both; verify accepts exactly it.       *)
(***************************************************************************)
SignatureLen == 64

Sr25519Sign(pub_key, msg) == Blake2b256(pub_key \o msg) \o Blake2b256(msg \o pub_key)

Sr25519Verify(pub_key, msg, sig) == sig = Sr25519Sign(pub_key, msg)

(***************************************************************************)
(* Credential::check_signature, up to the resolver call and after it.      *)
(***************************************************************************)
(* the account whose identity document is looked up, or the error *)
check_signature_begin(c) == get_did_account_id(c.claim.owner)

VerifySignature(c, key) ==
    IF ~hex_decode(c.claimer_signature.signature).ok THEN Err("InvalidHex")
    ELSE IF Len(hex_decode(c.claimer_signature.signature).val) /= SignatureLen
         THEN Err("InvalidHex")
    ELSE IF ~hex_decode(c.root_hash).ok THEN Err("InvalidHex")
    ELSE IF Sr25519Verify(key, hex_decode(c.root_hash).val,
                          hex_decode(c.claimer_signature.signature).val)
         THEN OkUnit
         ELSE Err("InvalidSignature")

(* the check as it would be without the match on the key's type *)
check_signature_resume_any_key(c, answer) ==
    IF ~answer.ok THEN FromBasicError
    ELSE IF answer.val = None THEN Err("DidNotFound")
    ELSE IF ~get_did_key_id(c.claimer_signature.key_id).ok
         THEN get_did_key_id(c.claimer_signature.key_id)
    ELSE IF get_did_key_id(c.claimer_signature.key_id).val \notin DOMAIN answer.val[1].public_keys
         THEN Err("InvalidDid")
    ELSE VerifySignature(
             c, answer.val[1].public_keys[get_did_key_id(c.claimer_signature.key_id).val].key)

(* answer: what cli.storage().did().did(&owner, None).await gave *)
check_signature_resume(c, answer) ==
    IF ~answer.ok THEN FromBasicError
    ELSE IF answer.val = None THEN Err("DidNotFound")
    ELSE IF ~get_did_key_id(c.claimer_signature.key_id).ok
         THEN get_did_key_id(c.claimer_signature.key_id)
    ELSE IF get_did_key_id(c.claimer_signature.key_id).val \notin DOMAIN answer.val[1].public_keys
         THEN Err("InvalidDid")
    ELSE IF answer.val[1].public_keys[get_did_key_id(c.claimer_signature.key_id).val].kind
                /= "PublicVerificationKey.Sr25519"
         THEN Err("InvalidDid")
    ELSE VerifySignature(
             c, answer.val[1].public_keys[get_did_key_id(c.claimer_signature.key_id).val].key)

(***************************************************************************)
(* Credential::check_attestation, up to the resolver call and after it.    *)
(***************************************************************************)
(* the H256 the attestation is looked up under, or the error *)
check_attestation_begin(c) ==
    IF ~hex_decode(c.root_hash).ok THEN Err("InvalidHex")
    ELSE IF Len(hex_decode(c.root_hash).val) /= H256Len THEN Err("InvalidHex")
    ELSE hex_decode(c.root_hash)

DidKilt == <<"d", "i", "d", ":", "k", "i", "l", "t", ":">>

(* format!("did:kilt:{}", attester.to_ss58check_with_version(custom(38))) *)
AttesterDid(attester) == DidKilt \o to_ss58check_with_version(attester, KiltVersion)

(* the check as it would be without the look at revoked *)
check_attestation_resume_unrevoked(c, allowed, answer) ==
    IF ~answer.ok THEN FromBasicError
    ELSE IF answer.val = None THEN Err("AttestationNotFound")
    ELSE IF AttesterDid(answer.val[1].attester) \in allowed THEN OkUnit
    ELSE Err("InvalidIssuer")

(* the check as it would be with the allow-list read as a deny-list *)
check_attestation_resume_inverted(c, allowed, answer) ==
    IF ~answer.ok THEN FromBasicError
    ELSE IF answer.val = None THEN Err("AttestationNotFound")
    ELSE IF answer.val[1].revoked THEN Err("AttestationRevoked")
    ELSE IF AttesterDid(answer.val[1].attester) \in allowed THEN Err("InvalidIssuer")
    ELSE OkUnit

(* answer: what cli.storage().attestation().attestations(&hash, None).await gave *)
check_attestation_resume(c, allowed, answer) ==
    IF ~answer.ok THEN FromBasicError
    ELSE IF answer.val = None THEN Err("AttestationNotFound")
    ELSE IF answer.val[1].revoked THEN Err("AttestationRevoked")
    ELSE IF AttesterDid(answer.val[1].attester) \in allowed THEN OkUnit
    ELSE Err("InvalidIssuer")

(***************************************************************************)
(* State.                                                                  *)
(***************************************************************************)
VARIABLES
    cred,             \* the Credential being checked
    before,           \* the credential and the result of its check before it was altered,
                      \* or of the earlier invocation
    allowed_issuers,  \* the allow-list handed to verify / check_attestation
    ledger,           \* the chain: identity documents and attestation records
    entry,            \* the function the caller invoked
    pc,               \* where the invocation stands
    result,           \* what the invocation returned
    calls,            \* the checks started and the resolver calls made, in order
    pending,          \* the resolver's answer the suspended check resumes with
    data,             \* hex helpers: the bytes
    text,             \* the string handed to hex_decode, or to a DID helper
    form,             \* hex helpers: how text writes data
    decoded           \* hex helpers: what hex_decode returned

vars == <<cred, before, allowed_issuers, ledger, entry, pc, result, calls, pending,
          data, text, form, decoded>>

credVars == <<cred, before>>

chainVars == <<allowed_issuers, ledger, entry, calls, pending>>

hexVars == <<data, text, form, decoded>>

(* Values of the variables a specification does not use. *)
NoCredential ==
    [claim |-> [ctype_hash |-> <<>>, contents |-> JNull, owner |-> <<>>],
     claim_hashes |-> <<>>,
     claim_nonce_map |-> <<>>,
     claimer_signature |-> [signature |-> <<>>, key_id |-> <<>>],
     root_hash |-> <<>>]

NoResult == Err("not returned")

NoBefore == [cred |-> NoCredential, result |-> NoResult]

NoLedger == [did |-> <<>>, attestations |-> <<>>]

NoForm == [prefix |-> <<>>, upper |-> FALSE, lead |-> <<>>, trail |-> <<>>]

CredIdle == cred = NoCredential /\ before = NoBefore

ChainIdle ==
    /\ allowed_issuers = {}
    /\ ledger = NoLedger
    /\ entry = "none"
    /\ calls = <<>>
    /\ pending = NoResult

HexIdle == data = <<>> /\ text = <<>> /\ form = NoForm /\ decoded = NoResult

(***************************************************************************)
(* The hex helpers on their own: hex_encode writes the bytes, the caller   *)
(* may rewrite the string (drop the prefix, write it 0X, write the digits  *)
(* in upper case, put whitespace around it), hex_decode reads it.          *)
(***************************************************************************)
MaxBytes == 2

MaxPad == 1

ByteSample == {0, 10, 18, 171, 255}

Byte == 0..255

RECURSIVE SeqsUpTo(_, _)
SeqsUpTo(S, n) ==
    IF n = 0 THEN {<<>>}
    ELSE SeqsUpTo(S, n - 1) \cup {Append(q, x) : q \in {r \in SeqsUpTo(S, n - 1) : Len(r) = n - 1}, x \in S}

HexData == {<<b>> : b \in Byte} \cup SeqsUpTo(ByteSample, MaxBytes)

PrefixUpper == <<"0", "X">>

ToUpper(c) ==
    IF \E i \in 1..16 : HexDigitsLower[i] = c
    THEN HexDigitsUpper[CHOOSE i \in 1..16 : HexDigitsLower[i] = c]
    ELSE c

InitHex ==
    /\ data \in HexData
    /\ text = <<>>
    /\ form = NoForm
    /\ decoded = NoResult
    /\ pc = "start"
    /\ result = NoResult
    /\ CredIdle
    /\ ChainIdle

HexEncode ==
    /\ pc = "start"
    /\ text' = hex_encode(data)
    /\ form' = [prefix |-> Prefix0x, upper |-> FALSE, lead |-> <<>>, trail |-> <<>>]
    /\ pc' = "encoded"
    /\ UNCHANGED <<data, decoded, result, credVars, chainVars>>

(* The body of text: what stands between the whitespace. *)
TextBody == SubSeq(text, Len(form.lead) + 1, Len(text) - Len(form.trail))

Rewritten(f, body) ==
    /\ form' = f
    /\ text' = f.lead \o body \o f.trail
    /\ UNCHANGED <<data, decoded, pc, result, credVars, chainVars>>

DropPrefix ==
    /\ pc = "encoded"
    /\ form.prefix /= <<>>
    /\ Rewritten([form EXCEPT !.prefix = <<>>], Drop(TextBody, 2))

UpperCasePrefix ==
    /\ pc = "encoded"
    /\ form.prefix = Prefix0x
    /\ Rewritten([form EXCEPT !.prefix = PrefixUpper], PrefixUpper \o Drop(TextBody, 2))

UpperCaseDigits ==
    /\ pc = "encoded"
    /\ ~form.upper
    /\ Rewritten([form EXCEPT !.upper = TRUE],
                 form.prefix \o [i \in 1..(Len(TextBody) - Len(form.prefix)) |->
                                    ToUpper(TextBody[i + Len(form.prefix)])])

PadLeft ==
    /\ pc = "encoded"
    /\ Len(form.lead) < MaxPad
    /\ \E w \in {" ", "\n"} : Rewritten([form EXCEPT !.lead = <<w>> \o @], TextBody)

PadRight ==
    /\ pc = "encoded"
    /\ Len(form.trail) < MaxPad
    /\ \E w \in {" ", "\t"} : Rewritten([form EXCEPT !.trail = Append(@, w)], TextBody)

HexDecode ==
    /\ pc = "encoded"
    /\ decoded' = hex_decode(text)
    /\ pc' = "decoded"
    /\ UNCHANGED <<data, text, form, result, credVars, chainVars>>

NextHex ==
    \/ HexEncode
    \/ DropPrefix
    \/ UpperCasePrefix
    \/ UpperCaseDigits
    \/ PadLeft
    \/ PadRight
    \/ HexDecode

SpecHex == InitHex /\ [][NextHex]_vars

(* C8: hex_encode writes 0x first, and hex_decode gives back the bytes     *)
(* hex_encode wrote, whether the string still carries its 0x prefix or the *)
(* prefix was dropped, and whatever whitespace stands before or after it.  *)
HexRoundTrip ==
    /\ pc \in {"encoded", "decoded"} /\ form.prefix = Prefix0x
           => IsPrefix(Prefix0x, TextBody)
    /\ pc = "decoded" /\ form.prefix \in {Prefix0x, <<>>} /\ ~form.upper
           => decoded = Ok(data)

HexRoundTripWitness ==
    /\ pc = "decoded"
    /\ form.prefix = <<>>
    /\ ~form.upper
    /\ form.lead /= <<>>
    /\ form.trail /= <<>>
    /\ Len(data) = 2
    /\ decoded = Ok(data)

(* C9 as stated: the string decodes to the bytes whether its prefix is     *)
(* written 0x or 0X and whether its digits are lower or upper case.        *)
HexDecodeAnyCase ==
    pc = "decoded" /\ form.prefix \in {Prefix0x, PrefixUpper} => decoded = Ok(data)

(* C9 amended: the digits are read in either case; the prefix is accepted  *)
(* only as 0x (or left out), and a string prefixed 0X is refused with      *)
(* InvalidHex.                                                             *)
HexDecodeDigitCase ==
    /\ pc = "decoded" /\ form.prefix \in {Prefix0x, <<>>} => decoded = Ok(data)
    /\ pc = "decoded" /\ form.prefix = PrefixUpper => decoded = Err("InvalidHex")

HexDecodeDigitCaseWitness ==
    /\ pc = "decoded"
    /\ form.upper
    /\ form.prefix = Prefix0x
    /\ \E i \in 1..Len(data) : data[i] = 171
    /\ decoded = Ok(data)

(***************************************************************************)
(* check_claim_contents on its own.  The credentials: one owner, contents  *)
(* that is no object or maps some of two keys to one of two values, a      *)
(* nonce map over the digests of the statements these claims have, and     *)
(* claimHashes drawn from their salted digests.  The caller may then       *)
(* replace one contents value and check again.                             *)
(***************************************************************************)
MaxEntries == 3

OwnerDid == <<"d", "i", "d", ":", "k", "i", "l", "t", ":", "4", "s", "i", "D">>

CtypeHash == <<"0", "x", "3", "2", "9", "1">>

ContentKeys == {<<"E", "m", "a", "i", "l">>, <<"A", "g", "e">>}

ContentValues == {JString(<<"t", "i", "n", "o">>), JString(<<"t", "i", "n", "a">>)}

Nonces == {<<"5", "f", "2", "5">>, <<"c", "5", "7", "e">>}

HonestNonce == <<"5", "f", "2", "5">>

PartialMaps(D, R) == UNION {[S -> R] : S \in SUBSET D}

ContentsUniverse == {JNull} \cup {JObject(m) : m \in PartialMaps(ContentKeys, ContentValues)}

ClaimOf(contents) == [ctype_hash |-> CtypeHash, contents |-> contents, owner |-> OwnerDid]

(* The statements of the claims above, as a set. *)
StatementsOf(claim) ==
    {OwnerStatement(claim)} \cup {ContentStatement(claim, k) : k \in DOMAIN claim.contents.m}

StatementUniverse ==
    UNION {StatementsOf(ClaimOf(c)) : c \in {x \in ContentsUniverse : x.t = "object"}}

HashUniverse == {StatementHash(p) : p \in StatementUniverse}

SaltedUniverse == {SaltedHash(HonestNonce, h) : h \in HashUniverse}

UpTo(S, n) == {T \in SUBSET S : Cardinality(T) <= n}

(* Nonce maps: up to MaxEntries digests, all under one of the nonces. *)
NonceMaps == {[h \in K |-> n] : K \in UpTo(HashUniverse, MaxEntries), n \in Nonces}

ClaimHashLists == {SeqOfSet(T) : T \in UpTo(SaltedUniverse, MaxEntries)}

InitContents ==
    /\ \E c \in ContentsUniverse, n \in NonceMaps, h \in ClaimHashLists :
          cred = [NoCredential EXCEPT !.claim = ClaimOf(c),
                                      !.claim_nonce_map = n,
                                      !.claim_hashes = h]
    /\ before = NoBefore
    /\ pc = "start"
    /\ result = NoResult
    /\ ChainIdle
    /\ HexIdle

ClaimContentsCheck ==
    /\ pc \in {"start", "tampered"}
    /\ result' = check_claim_contents(cred)
    /\ pc' = IF pc = "start" THEN "checked" ELSE "rechecked"
    /\ UNCHANGED <<credVars, chainVars, hexVars>>

(* The caller replaces the value of one contents entry of a credential     *)
(* that passed by another value.                                           *)
TamperValue ==
    /\ pc = "checked"
    /\ result = OkUnit
    /\ \E k \in DOMAIN cred.claim.contents.m, v \in ContentValues :
          /\ v /= cred.claim.contents.m[k]
          /\ cred' = [cred EXCEPT !.claim.contents.m[k] = v]
    /\ before' = [cred |-> cred, result |-> result]
    /\ pc' = "tampered"
    /\ result' = NoResult
    /\ UNCHANGED <<chainVars, hexVars>>

NextContents == ClaimContentsCheck \/ TamperValue

SpecContents == InitContents /\ [][NextContents]_vars

(* The digest does not collide on the statements and hashes of the claims. *)
DigestInjective ==
    /\ Cardinality(HashUniverse) = Cardinality(StatementUniverse)
    /\ Cardinality(SaltedUniverse) = Cardinality(HashUniverse)

(* A statement is committed: its digest has a nonce, and the digest of the *)
(* nonce followed by the digest's hex string is one of claimHashes.        *)
Committed(c, statement) ==
    /\ StatementHash(statement) \in DOMAIN c.claim_nonce_map
    /\ \E i \in 1..Len(c.claim_hashes) :
          c.claim_hashes[i] =
              SaltedHash(c.claim_nonce_map[StatementHash(statement)], StatementHash(statement))

(* C2: check_claim_contents returns Ok exactly when the claim has          *)
(* canonical statements (its contents is an object) and every one of them, *)
(* the owner statement and one per contents entry, is committed; in every  *)
(* other case it returns InvalidClaimContents.                             *)
ClaimContentsIff ==
    pc \in {"checked", "rechecked"} =>
        /\ result = OkUnit <=>
              /\ cred.claim.contents.t = "object"
              /\ \A p \in StatementsOf(cred.claim) : Committed(cred, p)
        /\ result /= OkUnit => result = Err("InvalidClaimContents")

ClaimContentsIffWitness ==
    /\ pc = "checked"
    /\ result = OkUnit
    /\ Cardinality(DOMAIN cred.claim.contents.m) = 2

(* The contents entry TamperValue replaced. *)
TamperedKey ==
    CHOOSE k \in DOMAIN cred.claim.contents.m :
        before.cred.claim.contents.m[k] /= cred.claim.contents.m[k]

(* claimNonceMap's keys are exactly the digests of the claim's statements. *)
NonceKeysExact(c) ==
    c.claim.contents.t = "object"
    /\ DOMAIN c.claim_nonce_map = {StatementHash(p) : p \in StatementsOf(c.claim)}

(* C10 as stated: a credential that passed check_claim_contents fails it   *)
(* with InvalidClaimContents once one contents value is replaced.          *)
TamperAlwaysFails ==
    pc = "rechecked" /\ before.result = OkUnit => result = Err("InvalidClaimContents")

(* C10 amended: after one contents value of a passing credential is        *)
(* replaced, check_claim_contents fails with InvalidClaimContents unless   *)
(* the altered statement is itself committed (claimNonceMap has a nonce    *)
(* under its digest and claimHashes the salted digest); it always fails    *)
(* when claimNonceMap's keys are exactly the digests of the original       *)
(* claim's statements.                                                     *)
TamperFailsUnlessCommitted ==
    pc = "rechecked" /\ before.result = OkUnit =>
        /\ result = Err("InvalidClaimContents") <=>
              ~Committed(cred, ContentStatement(cred.claim, TamperedKey))
        /\ result \in {OkUnit, Err("InvalidClaimContents")}
        /\ NonceKeysExact(before.cred) => result = Err("InvalidClaimContents")

TamperFailsWitness ==
    /\ pc = "rechecked"
    /\ before.result = OkUnit
    /\ NonceKeysExact(before.cred)
    /\ Cardinality(DOMAIN cred.claim.contents.m) = 2
    /\ result = Err("InvalidClaimContents")

(***************************************************************************)
(* check_root_hash on its own.  claimHashes holds up to MaxHashes entries: *)
(* two digests, one of them also written without its prefix and with       *)
(* upper-case digits, two short byte strings, and a string that is no hex. *)
(* rootHash is the hex_encode of the digest over their bytes, the same     *)
(* bytes written another way, or another digest.  The caller may then swap *)
(* two entries of a credential that passed and check again.                *)
(***************************************************************************)
MaxHashes == 3

EntryOne == hex_encode(Blake2b256(<<1>>))

EntryTwo == hex_encode(Blake2b256(<<2>>))

UpperCased(str) == [i \in 1..Len(str) |-> ToUpper(str[i])]

EntryPool ==
    { EntryOne, EntryTwo,
      Drop(EntryOne, 2),
      Prefix0x \o UpperCased(Drop(EntryOne, 2)),
      <<"0", "x", "1", "2">>,
      <<"0", "x", "1", "2", "1", "2">>,
      <<"0", "x", "z", "z">> }

(* The bytes of the entries one after the other (entries that are no hex   *)
(* give none). *)
RECURSIVE ConcatDecoded(_, _)
ConcatDecoded(hashes, n) ==
    IF n = 0 THEN <<>>
    ELSE ConcatDecoded(hashes, n - 1) \o hex_decode(hashes[n]).val

AllValidHex(hashes) == \A i \in 1..Len(hashes) : hex_decode(hashes[i]).ok

RootDigest(hashes) == Blake2b256(ConcatDecoded(hashes, Len(hashes)))

RootHashChoices(hashes) ==
    { hex_encode(RootDigest(hashes)),
      HexCrateEncode(RootDigest(hashes)),
      Prefix0x \o UpperCased(HexCrateEncode(RootDigest(hashes))),
      <<" ">> \o hex_encode(RootDigest(hashes)),
      EntryOne }

InitRoot ==
    /\ \E h \in SeqsUpTo(EntryPool, MaxHashes) : \E r \in RootHashChoices(h) :
          cred = [NoCredential EXCEPT !.claim_hashes = h, !.root_hash = r]
    /\ before = NoBefore
    /\ pc = "start"
    /\ result = NoResult
    /\ ChainIdle
    /\ HexIdle

RootHashCheck ==
    /\ pc \in {"start", "swapped"}
    /\ result' = check_root_hash(cred)
    /\ pc' = IF pc = "start" THEN "checked" ELSE "rechecked"
    /\ UNCHANGED <<credVars, chainVars, hexVars>>

(* The caller swaps two entries of claimHashes that differ, in a           *)
(* credential that passed.                                                 *)
SwapEntries ==
    /\ pc = "checked"
    /\ result = OkUnit
    /\ \E i, j \in 1..Len(cred.claim_hashes) :
          /\ i < j
          /\ cred.claim_hashes[i] /= cred.claim_hashes[j]
          /\ cred' = [cred EXCEPT !.claim_hashes[i] = cred.claim_hashes[j],
                                  !.claim_hashes[j] = cred.claim_hashes[i]]
    /\ before' = [cred |-> cred, result |-> result]
    /\ pc' = "swapped"
    /\ result' = NoResult
    /\ UNCHANGED <<chainVars, hexVars>>

NextRoot == RootHashCheck \/ SwapEntries

SpecRoot == InitRoot /\ [][NextRoot]_vars

RootChecked == pc \in {"checked", "rechecked"} /\ AllValidHex(cred.claim_hashes)

(* C3 as stated: with entries that are valid hex, check_root_hash returns  *)
(* Ok exactly when the digest over the entries' bytes equals the bytes     *)
(* rootHash decodes to, and InvalidRootHash otherwise.                     *)
RootHashDecodedEquality ==
    RootChecked =>
        /\ result = OkUnit <=> hex_decode(cred.root_hash) = Ok(RootDigest(cred.claim_hashes))
        /\ result /= OkUnit => result = Err("InvalidRootHash")

(* C3 amended: with entries that are valid hex, check_root_hash returns Ok *)
(* exactly when rootHash is the string 0x followed by the lower-case hex   *)
(* digits of the single digest over the entries' bytes in the given order, *)
(* and InvalidRootHash otherwise: a rootHash that decodes to the digest    *)
(* but is written without prefix, in upper case or with whitespace fails.  *)
RootHashStringEquality ==
    RootChecked =>
        /\ result = OkUnit <=>
              cred.root_hash = <<"0", "x">> \o HexCrateEncode(RootDigest(cred.claim_hashes))
        /\ result /= OkUnit => result = Err("InvalidRootHash")

RootHashStringEqualityWitness ==
    /\ pc = "checked"
    /\ Len(cred.claim_hashes) = 3
    /\ AllValidHex(cred.claim_hashes)
    /\ cred.claim_hashes[1] /= cred.claim_hashes[2]
    /\ result = OkUnit

(* The positions SwapEntries exchanged. *)
SwappedAt == {i \in 1..Len(cred.claim_hashes) : before.cred.claim_hashes[i] /= cred.claim_hashes[i]}

DecodedAt(i) == hex_decode(cred.claim_hashes[i]).val

(* C4 as stated: swapping two entries with distinct values in a credential *)
(* that passed check_root_hash makes it fail with InvalidRootHash.         *)
SwapAlwaysFails ==
    pc = "rechecked" => result = Err("InvalidRootHash")

(* C4 amended: after the swap check_root_hash fails with InvalidRootHash   *)
(* exactly when the swap changed the concatenation of the decoded bytes,   *)
(* and so whenever the two entries decode to different byte strings of one *)
(* length; entries that differ only in spelling, or whose bytes commute,   *)
(* leave it Ok.                                                            *)
SwapFailsWhenBytesChange ==
    pc = "rechecked" =>
        /\ result = Err("InvalidRootHash") <=>
              ConcatDecoded(cred.claim_hashes, Len(cred.claim_hashes))
                  /= ConcatDecoded(before.cred.claim_hashes, Len(cred.claim_hashes))
        /\ result \in {OkUnit, Err("InvalidRootHash")}
        /\ (\A i, j \in SwappedAt :
               i /= j => DecodedAt(i) /= DecodedAt(j) /\ Len(DecodedAt(i)) = Len(DecodedAt(j)))
           => result = Err("InvalidRootHash")

SwapFailsWitness ==
    /\ pc = "rechecked"
    /\ \A i, j \in SwappedAt :
          i /= j => DecodedAt(i) /= DecodedAt(j) /\ Len(DecodedAt(i)) = Len(DecodedAt(j))
    /\ Len(cred.claim_hashes) = 3
    /\ result = Err("InvalidRootHash")

(***************************************************************************)
(* Credential::verify and the two checks that ask the chain.  The caller   *)
(* invokes verify, check_signature or check_attestation on a credential    *)
(* an issuer made for the owner (IssuedCredential), possibly altered       *)
(* afterwards; the chain holds or lacks the owner's identity document and  *)
(* the attestation of the root hash; each resolver call answers from the   *)
(* chain or fails.                                                         *)
(***************************************************************************)
OwnerKeyId == Blake2b256(<<7>>)

OwnerKey == Blake2b256(<<8>>)

OtherKey == Blake2b256(<<9>>)

IssuedContents == JObject(<<"E", "m", "a", "i", "l">> :> JString(<<"t", "i", "n", "o">>))

TamperedContents == JObject(<<"E", "m", "a", "i", "l">> :> JString(<<"t", "i", "n", "a">>))

OwnerChoices == {OwnerDid, <<"d", "i", "d", ":", "k", "i", "l", "t">>}

(* What the issuer commits to for a claim. *)
IssuedHashes(claim) == SeqOfSet({SaltedHash(HonestNonce, StatementHash(p)) : p \in StatementsOf(claim)})

IssuedNonceMap(claim) == [h \in {StatementHash(p) : p \in StatementsOf(claim)} |-> HonestNonce]

IssuedRoot(claim) == RootDigest(IssuedHashes(claim))

RootHashOf(claim, choice) ==
    CASE choice = "issued" -> hex_encode(IssuedRoot(claim))
      [] choice = "upper"  -> Prefix0x \o UpperCased(HexCrateEncode(IssuedRoot(claim)))
      [] OTHER             -> EntryOne

KeyIdOf(choice) ==
    CASE choice = "issued"  -> OwnerDid \o <<"#">> \o hex_encode(OwnerKeyId)
      [] choice = "unknown" -> OwnerDid \o <<"#">> \o hex_encode(OtherKey)
      [] choice = "no hex"  -> OwnerDid \o <<"#", "0", "x", "z", "z">>
      [] choice = "other identity" ->
             DidKilt \o <<"4", "p", "v", "W", "#">> \o hex_encode(OwnerKeyId)
      [] OTHER              -> OwnerDid \o <<"#">>

SignatureOf(claim, choice) ==
    CASE choice = "issued" -> hex_encode(Sr25519Sign(OwnerKey, IssuedRoot(claim)))
      [] choice = "forged" -> hex_encode(Sr25519Sign(OtherKey, IssuedRoot(claim)))
      [] OTHER             -> <<"0", "x", "z", "z">>

IssuedClaim(owner) == [ctype_hash |-> CtypeHash, contents |-> IssuedContents, owner |-> owner]

(* The credential issued for owner, then altered as the choices say. *)
IssuedCredential(owner, tampered, root, keyid, sig) ==
    [claim |-> [ctype_hash |-> CtypeHash,
                contents |-> IF tampered THEN TamperedContents ELSE IssuedContents,
                owner |-> owner],
     claim_hashes |-> IssuedHashes(IssuedClaim(owner)),
     claim_nonce_map |-> IssuedNonceMap(IssuedClaim(owner)),
     claimer_signature |-> [signature |-> SignatureOf(IssuedClaim(owner), sig),
                            key_id |-> KeyIdOf(keyid)],
     root_hash |-> RootHashOf(IssuedClaim(owner), root)]

Credentials ==
    {IssuedCredential(o, t, r, k, s) :
        o \in OwnerChoices, t \in BOOLEAN, r \in {"issued", "upper", "other"},
        k \in {"issued", "unknown", "no hex", "empty"}, s \in {"issued", "forged", "no hex"}}

DidDocument(kind) == [public_keys |-> (OwnerKeyId :> [kind |-> kind, key |-> OwnerKey])]

DidStores ==
    { <<>>,
      "owner" :> DidDocument("PublicVerificationKey.Sr25519"),
      "owner" :> DidDocument("PublicVerificationKey.Ed25519") }

AttestationStores ==
    { <<>> } \cup
    { IssuedRoot(IssuedClaim(OwnerDid)) :> [attester |-> a, revoked |-> r] :
        a \in {"attester", "stranger"}, r \in BOOLEAN }

AllowLists ==
    { {},
      {DidKilt \o <<"4", "p", "n", "f">>},
      {DidKilt \o <<"5", "G", "r", "w">>, DidKilt \o <<"4", "s", "i", "D">>} }

Init ==
    /\ cred \in Credentials
    /\ before = NoBefore
    /\ allowed_issuers \in AllowLists
    /\ \E d \in DidStores, a \in AttestationStores : ledger = [did |-> d, attestations |-> a]
    /\ entry \in {"verify", "check_signature", "check_attestation"}
    /\ pc = "start"
    /\ result = NoResult
    /\ calls = <<>>
    /\ pending = NoResult
    /\ HexIdle

(* cli.storage().did().did(&owner, None) *)
StorageDid(owner) ==
    IF owner \in DOMAIN ledger.did THEN Ok(Some(ledger.did[owner])) ELSE Ok(None)

(* the lookup as it would be with a cache: the first answer the resolver   *)
(* gave is given again                                                     *)
StorageAttestationsCached(hash) ==
    IF \E i \in 1..Len(calls) : calls[i].name = "resolve_attestation" /\ calls[i].outcome.ok
    THEN calls[CHOOSE i \in 1..Len(calls) :
                   /\ calls[i].name = "resolve_attestation" /\ calls[i].outcome.ok
                   /\ \A j \in 1..(i - 1) :
                         ~(calls[j].name = "resolve_attestation" /\ calls[j].outcome.ok)].outcome
    ELSE IF hash \in DOMAIN ledger.attestations THEN Ok(Some(ledger.attestations[hash]))
    ELSE Ok(None)

(* cli.storage().attestation().attestations(&hash, None) *)
StorageAttestations(hash) ==
    IF hash \in DOMAIN ledger.attestations THEN Ok(Some(ledger.attestations[hash])) ELSE Ok(None)

(* the ? of verify as it would be if a check's result were dropped *)
ContinuesAlways(r) == TRUE

(* The ? after each check in verify: an Ok goes on, an Err returns. *)
Continues(r) == r.ok

Call(name, outcome) == [name |-> name, outcome |-> outcome]

(* A check returned r to its caller: verify goes on to next or returns,    *)
(* a check called on its own returns; a panic ends the program.            *)
Returned(r, next) ==
    IF r = Panic THEN pc' = "panicked" /\ result' = NoResult
    ELSE IF entry = "verify" /\ Continues(r)
         THEN IF next = "done" THEN pc' = "done" /\ result' = OkUnit
              ELSE pc' = next /\ result' = NoResult
    ELSE pc' = "done" /\ result' = r

VerifyClaimContents ==
    /\ entry = "verify"
    /\ pc = "start"
    /\ calls' = Append(calls, Call("check_claim_contents", check_claim_contents(cred)))
    /\ Returned(check_claim_contents(cred), "contents_checked")
    /\ UNCHANGED <<credVars, allowed_issuers, ledger, entry, pending, hexVars>>

VerifyRootHash ==
    /\ entry = "verify"
    /\ pc = "contents_checked"
    /\ calls' = Append(calls, Call("check_root_hash", check_root_hash(cred)))
    /\ Returned(check_root_hash(cred), "root_hash_checked")
    /\ UNCHANGED <<credVars, allowed_issuers, ledger, entry, pending, hexVars>>

(* check_signature up to the await of the identity document *)
SignatureBegin ==
    /\ \/ entry = "verify" /\ pc = "root_hash_checked"
       \/ entry = "check_signature" /\ pc = "start"
    /\ IF check_signature_begin(cred).ok
       THEN /\ calls' = calls \o <<Call("check_signature", NoResult), Call("resolve_did", NoResult)>>
            /\ pending' = check_signature_begin(cred)
            /\ pc' = "awaiting_did"
            /\ result' = NoResult
       ELSE /\ calls' = Append(calls, Call("check_signature", check_signature_begin(cred)))
            /\ pending' = NoResult
            /\ Returned(check_signature_begin(cred), "signature_checked")
    /\ UNCHANGED <<credVars, allowed_issuers, ledger, entry, hexVars>>

(* the resolver answers, check_signature resumes and returns *)
SignatureResume ==
    /\ pc = "awaiting_did"
    /\ \E answer \in {Err("BasicError"), StorageDid(pending.val)} :
          /\ calls' = [calls EXCEPT ![Len(calls)].outcome = answer,
                                    ![Len(calls) - 1].outcome = check_signature_resume(cred, answer)]
          /\ Returned(check_signature_resume(cred, answer), "signature_checked")
    /\ pending' = NoResult
    /\ UNCHANGED <<credVars, allowed_issuers, ledger, entry, hexVars>>

(* check_attestation up to the await of the attestation record *)
AttestationBegin ==
    /\ \/ entry = "verify" /\ pc = "signature_checked"
       \/ entry = "check_attestation" /\ pc = "start"
    /\ IF check_attestation_begin(cred).ok
       THEN /\ calls' = calls \o <<Call("check_attestation", NoResult), Call("resolve_attestation", NoResult)>>
            /\ pending' = check_attestation_begin(cred)
            /\ pc' = "awaiting_attestation"
            /\ result' = NoResult
       ELSE /\ calls' = Append(calls, Call("check_attestation", check_attestation_begin(cred)))
            /\ pending' = NoResult
            /\ Returned(check_attestation_begin(cred), "done")
    /\ UNCHANGED <<credVars, allowed_issuers, ledger, entry, hexVars>>

(* the resolver answers, check_attestation resumes and returns *)
AttestationResume ==
    /\ pc = "awaiting_attestation"
    /\ \E answer \in {Err("BasicError"), StorageAttestations(pending.val)} :
          /\ calls' = [calls EXCEPT ![Len(calls)].outcome = answer,
                                    ![Len(calls) - 1].outcome =
                                        check_attestation_resume(cred, allowed_issuers, answer)]
          /\ Returned(check_attestation_resume(cred, allowed_issuers, answer), "done")
    /\ pending' = NoResult
    /\ UNCHANGED <<credVars, allowed_issuers, ledger, entry, hexVars>>

Next ==
    \/ VerifyClaimContents
    \/ VerifyRootHash
    \/ SignatureBegin
    \/ SignatureResume
    \/ AttestationBegin
    \/ AttestationResume

Spec == Init /\ [][Next]_vars

(***************************************************************************)
(* Claims about verify and check_attestation.                              *)
(***************************************************************************)
CheckOrder ==
    <<"check_claim_contents", "check_root_hash", "check_signature", "resolve_did",
      "check_attestation", "resolve_attestation">>

IsCheck(i) == calls[i].name \notin {"resolve_did", "resolve_attestation"}

(* The entries of calls named name. *)
CallsNamed(name) == {i \in 1..Len(calls) : calls[i].name = name}

(* C1: verify starts the checks in the order check_claim_contents,         *)
(* check_root_hash, check_signature, check_attestation (each resolver call *)
(* inside its check); once a check has failed nothing is started after it  *)
(* and verify returns that check's error; verify returns Ok only when all  *)
(* four checks returned Ok.                                                *)
VerifyInOrderFirstFailureReturned ==
    entry = "verify" =>
        /\ Len(calls) <= Len(CheckOrder)
        /\ \A i \in 1..Len(calls) : calls[i].name = CheckOrder[i]
        /\ \A i, j \in 1..Len(calls) :
              IsCheck(i) /\ i < j /\ ~(j = i + 1 /\ ~IsCheck(j)) => calls[i].outcome = OkUnit
        /\ \A i \in 1..Len(calls) :
              IsCheck(i) /\ calls[i].outcome \notin {OkUnit, NoResult, Panic}
                  => pc = "done" /\ result = calls[i].outcome
        /\ pc = "done" /\ result = OkUnit =>
              \A name \in {"check_claim_contents", "check_root_hash",
                           "check_signature", "check_attestation"} :
                  \E i \in CallsNamed(name) : calls[i].outcome = OkUnit
        /\ pc = "done" => \E i \in 1..Len(calls) : IsCheck(i) /\ calls[i].outcome = result

(* verify stopped at the signature although the attestation is missing too *)
VerifyFirstFailureWitness ==
    /\ entry = "verify"
    /\ pc = "done"
    /\ result = Err("InvalidSignature")
    /\ Len(calls) = 4
    /\ ledger.attestations = <<>>
    /\ CallsNamed("check_attestation") = {}

(* The answers the attestation resolver has given. *)
AttestationAnswers == {calls[i].outcome : i \in CallsNamed("resolve_attestation")} \ {NoResult}

AttestationOutcomes == {calls[i].outcome : i \in CallsNamed("check_attestation")} \ {NoResult}

(* The issuer identity string of an account: did:kilt: and its address of  *)
(* the KILT network.                                                       *)
IssuerIdentity(account) ==
    <<"d", "i", "d", ":", "k", "i", "l", "t", ":">>
    \o (CHOOSE e \in Ss58Table : e.account = account /\ e.version = 38).address

(* C5: when the record resolved for rootHash is revoked, check_attestation *)
(* (and verify with it) fails with AttestationRevoked, whether or not the  *)
(* attester is in the allow-list.                                          *)
RevokedFailsWhateverTheIssuer ==
    \A answer \in AttestationAnswers :
        answer.ok /\ answer.val /= None /\ answer.val[1].revoked =>
            /\ AttestationOutcomes = {Err("AttestationRevoked")}
            /\ pc = "done"
            /\ result = Err("AttestationRevoked")

RevokedTrustedIssuerWitness ==
    /\ entry = "verify"
    /\ pc = "done"
    /\ \E answer \in AttestationAnswers :
          /\ answer.ok /\ answer.val /= None /\ answer.val[1].revoked
          /\ IssuerIdentity(answer.val[1].attester) \in allowed_issuers
    /\ result = Err("AttestationRevoked")

(* C6: check_attestation returns Ok exactly when a record was found for    *)
(* rootHash, it is not revoked, and the attester's issuer identity string  *)
(* is in the allow-list; a record found and not revoked whose attester is  *)
(* not in the allow-list gives InvalidIssuer, no record gives              *)
(* AttestationNotFound.                                                    *)
AttestationOkIffTrusted ==
    \A outcome \in AttestationOutcomes :
        /\ outcome = OkUnit <=>
              \E answer \in AttestationAnswers :
                  /\ answer.ok /\ answer.val /= None
                  /\ ~answer.val[1].revoked
                  /\ IssuerIdentity(answer.val[1].attester) \in allowed_issuers
        /\ \A answer \in AttestationAnswers :
              /\ answer.ok /\ answer.val /= None /\ ~answer.val[1].revoked
                     /\ IssuerIdentity(answer.val[1].attester) \notin allowed_issuers
                     => outcome = Err("InvalidIssuer")
              /\ answer.ok /\ answer.val = None => outcome = Err("AttestationNotFound")

(* the attester is on the list, but under its address of another network *)
UntrustedIssuerWitness ==
    /\ pc = "done"
    /\ result = Err("InvalidIssuer")
    /\ allowed_issuers /= {}
    /\ \E answer \in AttestationAnswers : answer.ok /\ answer.val /= None
                                           /\ answer.val[1].attester = "attester"

(* C7: when the resolver call of check_signature or of check_attestation   *)
(* fails, the check, and verify with it, returns ConnectionError.          *)
ResolverErrorIsConnectionError ==
    \A i \in 1..Len(calls) :
        ~IsCheck(i) /\ calls[i].outcome = Err("BasicError") =>
            /\ calls[i - 1].outcome = Err("ConnectionError")
            /\ pc = "done"
            /\ result = Err("ConnectionError")

ResolverErrorWitness ==
    /\ entry = "verify"
    /\ pc = "done"
    /\ \E i \in CallsNamed("resolve_attestation") : calls[i].outcome = Err("BasicError")
    /\ \E i \in CallsNamed("resolve_did") : calls[i].outcome.ok
    /\ result = Err("ConnectionError")

(* verify can return Ok. *)
VerifiedWitness == entry = "verify" /\ pc = "done" /\ result = OkUnit

(***************************************************************************)
(* Verifying again.  The caller verifies one credential against one        *)
(* allow-list several times; between and during the verifications the      *)
(* attester may revoke the attestation on the chain.  In this              *)
(* specification before holds the earlier invocation (cred, result), the   *)
(* chain as it was when the current invocation started (ledger) and the    *)
(* number of the current invocation (runs); calls keeps the calls of all   *)
(* the invocations.                                                        *)
(***************************************************************************)
MaxVerifications == 2

ReverifyCredentials ==
    {IssuedCredential(OwnerDid, FALSE, r, "issued", s) :
        r \in {"issued", "upper"}, s \in {"issued", "forged"}}

InitReverify ==
    /\ cred \in ReverifyCredentials
    /\ before = NoBefore
    /\ allowed_issuers \in AllowLists
    /\ \E d \in DidStores, a \in AttestationStores : ledger = [did |-> d, attestations |-> a]
    /\ entry \in {"verify", "check_attestation"}
    /\ pc = "start"
    /\ result = NoResult
    /\ calls = <<>>
    /\ pending = NoResult
    /\ HexIdle

(* The number of the invocation under way. *)
Runs == IF before = NoBefore THEN 1 ELSE before.runs

(* The attester revokes an attestation: the record stays, revoked is set. *)
Revoke ==
    /\ \E h \in DOMAIN ledger.attestations :
          /\ ~ledger.attestations[h].revoked
          /\ ledger' = [ledger EXCEPT !.attestations[h].revoked = TRUE]
    /\ UNCHANGED <<credVars, allowed_issuers, entry, pc, result, calls, pending, hexVars>>

(* The caller invokes the same function again, with the same credential,   *)
(* client and allow-list.                                                  *)
VerifyAgain ==
    /\ pc = "done"
    /\ Runs < MaxVerifications
    /\ before' = [cred |-> cred, result |-> result, ledger |-> ledger, runs |-> Runs + 1]
    /\ pc' = "start"
    /\ result' = NoResult
    /\ UNCHANGED <<cred, allowed_issuers, ledger, entry, calls, pending, hexVars>>

NextReverify ==
    \/ VerifyClaimContents
    \/ VerifyRootHash
    \/ SignatureBegin
    \/ SignatureResume
    \/ AttestationBegin
    \/ AttestationResume
    \/ Revoke
    \/ VerifyAgain

SpecReverify == InitReverify /\ [][NextReverify]_vars

(* The record of the credential's root hash was revoked on the chain when  *)
(* the invocation under way started, which was after an earlier one.       *)
RevokedWhenStarted ==
    /\ before /= NoBefore
    /\ check_attestation_begin(cred).ok
    /\ check_attestation_begin(cred).val \in DOMAIN before.ledger.attestations
    /\ before.ledger.attestations[check_attestation_begin(cred).val].revoked

(* The invocation under way asked the resolver for the attestation and got *)
(* an answer.                                                              *)
AttestationAnswered ==
    /\ Len(calls) > 0
    /\ calls[Len(calls)].name = "resolve_attestation"
    /\ calls[Len(calls)].outcome.ok

(* C11: nothing is kept from one verification to the next: an invocation   *)
(* of check_attestation, or of verify that reaches it, started after the   *)
(* record was revoked and answered by the resolver, returns                *)
(* AttestationRevoked, whatever the earlier invocation for the same        *)
(* credential and allow-list returned.                                     *)
ReverifyFailsOnceRevoked ==
    pc = "done" /\ RevokedWhenStarted /\ AttestationAnswered
        => result = Err("AttestationRevoked")

(* verify returned Ok, the attestation was revoked, verify was called again *)
ReverifyAfterOkWitness ==
    /\ entry = "verify"
    /\ pc = "done"
    /\ RevokedWhenStarted
    /\ AttestationAnswered
    /\ before.result = OkUnit
    /\ before.cred = cred
    /\ result = Err("AttestationRevoked")

(***************************************************************************)
(* check_signature, called on its own or by verify, when the chain holds   *)
(* identity documents of the owner and of another identity, with keys of   *)
(* several types, and the keyId may name the other identity.               *)
(***************************************************************************)
SignatureCredentials ==
    {IssuedCredential(o, FALSE, r, k, s) :
        o \in OwnerChoices, r \in {"issued", "other"},
        k \in {"issued", "unknown", "other identity", "no hex"},
        s \in {"issued", "forged", "no hex"}}

(* The other identity's document holds another key under the same key id. *)
StrangerDocument ==
    [public_keys |-> (OwnerKeyId :> [kind |-> "PublicVerificationKey.Sr25519", key |-> OtherKey])]

SignatureDidStores ==
    DidStores \cup
    { "owner" :> DidDocument("PublicEncryptionKey.X25519"),
      "stranger" :> StrangerDocument,
      ("owner" :> DidDocument("PublicVerificationKey.Sr25519")) @@ ("stranger" :> StrangerDocument) }

InitSignature ==
    /\ cred \in SignatureCredentials
    /\ before = NoBefore
    /\ allowed_issuers = {DidKilt \o <<"4", "p", "n", "f">>}
    /\ \E d \in SignatureDidStores,
          a \in {<<>>, IssuedRoot(IssuedClaim(OwnerDid)) :> [attester |-> "attester", revoked |-> FALSE]} :
          ledger = [did |-> d, attestations |-> a]
    /\ entry \in {"verify", "check_signature"}
    /\ pc = "start"
    /\ result = NoResult
    /\ calls = <<>>
    /\ pending = NoResult
    /\ HexIdle

SpecSignature == InitSignature /\ [][Next]_vars

(* What check_signature returned, and what the identity resolver answered. *)
SignatureOutcomes == {calls[i].outcome : i \in CallsNamed("check_signature")} \ {NoResult}

DidAnswers == {calls[i].outcome : i \in CallsNamed("resolve_did")} \ {NoResult}

(* The identity document the chain holds for claim.owner, if any. *)
OwnerHasDocument == cred.claim.owner = OwnerDid /\ "owner" \in DOMAIN ledger.did

OwnerDocument == ledger.did["owner"]

(* The key reference of claimerSignature.keyId: the bytes written in hex   *)
(* after the #, when they are 32 bytes.                                    *)
KeyReferences ==
    {k \in {OwnerKeyId, OtherKey} :
        \E identity \in {OwnerDid, DidKilt \o <<"4", "p", "v", "W">>} :
            cred.claimer_signature.key_id = identity \o <<"#">> \o hex_encode(k)}

(* The hex strings of the signature and of rootHash decode, to 64 bytes    *)
(* for the signature.                                                      *)
SignatureDecodes ==
    /\ hex_decode(cred.claimer_signature.signature).ok
    /\ Len(hex_decode(cred.claimer_signature.signature).val) = 64
    /\ hex_decode(cred.root_hash).ok

SignatureVerifiesWith(key) ==
    /\ SignatureDecodes
    /\ Sr25519Verify(key, hex_decode(cred.root_hash).val,
                     hex_decode(cred.claimer_signature.signature).val)

(* C12: check_signature returns Ok only if claim.owner has an identity     *)
(* document, the document holds a key under the key reference of keyId,    *)
(* the key is an sr25519 public verification key and the signature         *)
(* verifies over the decoded rootHash with it; when the resolver answers,  *)
(* no document gives DidNotFound, no such key or a key of another type     *)
(* gives InvalidDid, a signature that does not verify gives                *)
(* InvalidSignature.  The document is the one of claim.owner, whatever     *)
(* identity keyId names.                                                   *)
SignatureOkOnlyWithOwnersKey ==
    \A outcome \in SignatureOutcomes :
        /\ outcome = OkUnit =>
              /\ OwnerHasDocument
              /\ \E k \in KeyReferences :
                    /\ k \in DOMAIN OwnerDocument.public_keys
                    /\ OwnerDocument.public_keys[k].kind = "PublicVerificationKey.Sr25519"
                    /\ SignatureVerifiesWith(OwnerDocument.public_keys[k].key)
        /\ \A answer \in DidAnswers : answer.ok =>
              /\ ~OwnerHasDocument => outcome = Err("DidNotFound")
              /\ OwnerHasDocument =>
                    \A k \in KeyReferences :
                        /\ k \notin DOMAIN OwnerDocument.public_keys => outcome = Err("InvalidDid")
                        /\ /\ k \in DOMAIN OwnerDocument.public_keys
                           /\ OwnerDocument.public_keys[k].kind /= "PublicVerificationKey.Sr25519"
                           => outcome = Err("InvalidDid")
                        /\ /\ k \in DOMAIN OwnerDocument.public_keys
                           /\ OwnerDocument.public_keys[k].kind = "PublicVerificationKey.Sr25519"
                           /\ SignatureDecodes
                           /\ ~SignatureVerifiesWith(OwnerDocument.public_keys[k].key)
                           => outcome = Err("InvalidSignature")

(* keyId names the other identity, whose document holds another key under  *)
(* the same id; the owner's key signed, and check_signature returns Ok     *)
SignatureOtherIdentityWitness ==
    /\ entry = "check_signature"
    /\ pc = "done"
    /\ result = OkUnit
    /\ cred.claimer_signature.key_id = KeyIdOf("other identity")
    /\ DOMAIN ledger.did = {"owner", "stranger"}
    /\ ledger.did["stranger"].public_keys[OwnerKeyId].key /= OwnerDocument.public_keys[OwnerKeyId].key

(***************************************************************************)
(* The DID helpers on their own: the caller hands get_did_key_id or        *)
(* get_did_account_id an identity reference (text) put together from a     *)
(* prefix, an account and a fragment, well-formed or not.                  *)
(***************************************************************************)
DidPrefixes ==
    { <<"d", "i", "d", ":", "k", "i", "l", "t", ":">>,
      <<"d", "i", "d", ":">>,
      <<"x", "i", "d", ":", "k", "i", "l", "t", ":">>,
      <<"d", "i", "d", ":", "k", "i", "l", "t", ":", "x", ":">> }

DidAccounts == { <<"4", "s", "i", "D">>, <<"5", "D", "A", "A">>, <<"z", "z", "z", "z">>, <<>> }

DidFragments ==
    { <<>>,
      <<"#">>,
      <<"#", "0">>,
      <<"#", "0", "x">>,
      <<"#", "0", "x", "a", "b">>,
      <<"#", "0", "x", "a", "b", "c">>,
      <<"#", "0", "x", "z", "z">>,
      <<"#">> \o hex_encode(OwnerKeyId),
      <<"#", "z", "z">> \o HexCrateEncode(OwnerKeyId),
      <<"#">> \o hex_encode(OwnerKeyId) \o <<"#">> }

DidStrings == {p \o a \o f : p \in DidPrefixes, a \in DidAccounts, f \in DidFragments}

InitDid ==
    /\ CredIdle
    /\ ChainIdle
    /\ pc = "start"
    /\ result = NoResult
    /\ text \in DidStrings
    /\ data = <<>>
    /\ form = NoForm
    /\ decoded = NoResult

(* A helper returned r, or panicked. *)
HelperReturned(name, r) ==
    /\ entry' = name
    /\ pc' = IF r = Panic THEN "panicked" ELSE "done"
    /\ result' = IF r = Panic THEN NoResult ELSE r
    /\ UNCHANGED <<credVars, allowed_issuers, ledger, calls, pending, hexVars>>

GetDidKeyId == pc = "start" /\ HelperReturned("get_did_key_id", get_did_key_id(text))

GetDidAccountId == pc = "start" /\ HelperReturned("get_did_account_id", get_did_account_id(text))

NextDid == GetDidKeyId \/ GetDidAccountId

SpecDid == InitDid /\ [][NextDid]_vars

(* Where text has a colon, and where a #. *)
ColonsAt == {i \in 1..Len(text) : text[i] = ":"}

HashesAt == {i \in 1..Len(text) : text[i] = "#"}

LastOf(positions) == CHOOSE i \in positions : \A j \in positions : j <= i

FirstOf(positions) == CHOOSE i \in positions : \A j \in positions : i <= j

(* text is did:<method>:<account>#0x<64 hex digits>. *)
WellFormedKeyId ==
    /\ Cardinality(ColonsAt) = 2
    /\ Cardinality(HashesAt) = 1
    /\ SubSeq(text, 1, 4) = <<"d", "i", "d", ":">>
    /\ LastOf(HashesAt) > LastOf(ColonsAt)
    /\ Len(text) = LastOf(HashesAt) + 66
    /\ SubSeq(text, LastOf(HashesAt) + 1, LastOf(HashesAt) + 2) = <<"0", "x">>
    /\ \A i \in (LastOf(HashesAt) + 3)..Len(text) :
          \E d \in 1..16 : text[i] \in {HexDigitsLower[d], HexDigitsUpper[d]}

(* The third part of text, up to its first #. *)
OwnerAccountPart ==
    SubSeq(text, LastOf(ColonsAt) + 1,
           IF \E i \in HashesAt : i > LastOf(ColonsAt)
           THEN FirstOf({i \in HashesAt : i > LastOf(ColonsAt)}) - 1
           ELSE Len(text))

(* text has exactly three parts between colons and an account's address   *)
(* in the third (up to a #).                                               *)
WellFormedOwner ==
    /\ Cardinality(ColonsAt) = 2
    /\ \E e \in Ss58Table : e.address = OwnerAccountPart

(* C13: an identity reference that is not well-formed makes get_did_key_id *)
(* return Err(InvalidDid): no other error, no Ok, no panic; and an owner   *)
(* string that is not well-formed makes get_did_account_id return          *)
(* Err(InvalidDid).                                                        *)
MalformedDidIsInvalidDid ==
    /\ entry = "get_did_key_id" /\ ~WellFormedKeyId => pc = "done" /\ result = Err("InvalidDid")
    /\ entry = "get_did_account_id" /\ ~WellFormedOwner => pc = "done" /\ result = Err("InvalidDid")

====
